---- MODULE Spec2Model ----
(***************************************************************************)
(* Model of the goa plugins under src/: the security DSL (scheme registry  *)
(* and security requirements), the OpenAPI 3 document assembler           *)
(* (NewV3, paths, operation, paramsFromExpr), the file generator          *)
(* (Generate, openapiFiles, toJSON) and the i18n locale fan-out.          *)
(***************************************************************************)
EXTENDS Integers, Sequences, FiniteSets, TLC

VARIABLES
    schemes,          \* design.Root.Schemes
    apiSecurity,      \* design.Root.APISecurity
    serviceSecurity,  \* design.Root.ServiceSecurity
    endpointSecurity, \* design.Root.EndpointSecurity
    stack,            \* eval.Context.Stack
    lastErr,          \* kind of the error reported by the last step
    lastRet,          \* scheme returned by the last step, nil when none
    nilHandle,        \* some scheme definition has returned nil
    roots,            \* the roots handed to Generate
    files,            \* the file list handed to Generate
    genFiles,         \* the file list returned by Generate
    genErr,           \* the error returned by Generate
    pc,               \* phase of the run
    outs,             \* outputs written from the JSON section templates
    clParams,         \* the classifier's input: the mapped attributes
    clPath,           \* the classifier's input: the route path
    clRes,            \* the classifier's result
    goaI18n,          \* the locales of GOA_I18N, as configured
    locales,          \* the locale list resolved from the configuration
    li,               \* the locale pass the driver is at
    outputs           \* the document pairs of the run, by output name

dslVars == <<schemes, apiSecurity, serviceSecurity, endpointSecurity, stack,
             lastErr, lastRet, nilHandle>>
genVars == <<roots, files, genFiles, genErr, outs>>
clVars == <<clParams, clPath, clRes>>
locVars == <<goaI18n, locales, li, outputs>>
vars == <<schemes, apiSecurity, serviceSecurity, endpointSecurity, stack,
          lastErr, lastRet, nilHandle, roots, files, genFiles, genErr, pc, outs,
          clParams, clPath, clRes, goaI18n, locales, li, outputs>>

----------------------------------------------------------------------------
(* Bounds of the model *)

\* schemes, scopes and flows declared by a design and schemes named by its
\* requirements
MaxSecDecls == 3
\* roots, services, methods and routes declared by a design
MaxDecls == 6
\* attributes of a mapped attribute
MaxAttrs == 2
\* locales configured in GOA_I18N
MaxLocales == 3

SchemeNames == {"basic", "jwt"}
ScopeNames == {"api:read"}

----------------------------------------------------------------------------
(* Security DSL: expressions *)

BasicAuthKind == "BasicAuthKind"
APIKeyKind == "APIKeyKind"
OAuth2Kind == "OAuth2Kind"
JWTKind == "JWTKind"
NoKind == "NoKind"

\* design.SchemeExpr
SchemeExpr(kind, name) ==
    [Kind |-> kind, SchemeName |-> name, Scopes |-> <<>>, Flows |-> <<>>]

\* a nil *design.SchemeExpr
NilScheme == SchemeExpr("nil", "")

\* design.SecurityExpr
SecurityExpr(ss) == [Schemes |-> ss, Scopes |-> <<>>]

NoExpr == SecurityExpr(<<>>)

\* design.FlowExpr
FlowExpr(kind, auth, token, refresh) ==
    [Kind |-> kind, AuthorizationURL |-> auth, TokenURL |-> token, RefreshURL |-> refresh]

\* an entry of eval.Context.Stack. eval.Execute compares the number of errors
\* before and after the builder it runs: failed records, for the builder of
\* a scheme or of a requirement, that an error was reported since the entry
\* was pushed
Frame(kind, svc, meth, scheme, security) ==
    [kind |-> kind, svc |-> svc, meth |-> meth, scheme |-> scheme,
     security |-> security, failed |-> FALSE]

TopFrame == Frame("top", "", "", NilScheme, NoExpr)

\* eval.Current(): the top of the stack, eval.Top when the stack is empty
TopOf(stk) == IF stk = <<>> THEN TopFrame ELSE stk[Len(stk)]
Current == TopOf(stack)
CurrentKind == Current.kind

Pop == SubSeq(stack, 1, Len(stack) - 1)

\* eval.ReportError / eval.IncompatibleDSL / eval.InvalidArgError, called
\* with stack stk: one more error, seen by every Execute in progress
ReportError(stk, kind) ==
    /\ lastRet' = NilScheme
    /\ stack' = [i \in 1..Len(stk) |->
                     IF stk[i].kind \in {"scheme", "security"}
                     THEN [stk[i] EXCEPT !.failed = TRUE] ELSE stk[i]]
    /\ lastErr' = kind

\* a call that reports no error and returns no scheme
NoError ==
    /\ lastErr' = "none"
    /\ lastRet' = NilScheme

SeqRange(s) == {s[i] : i \in 1..Len(s)}

RECURSIVE SumSeq(_)
SumSeq(ns) == IF ns = <<>> THEN 0 ELSE Head(ns) + SumSeq(Tail(ns))

SumOver(s, F(_)) == SumSeq([k \in 1..Len(s) |-> F(s[k])])

\* what the design has declared with the security DSL so far
SizeOfScheme(sch) == 1 + Len(sch.Scopes) + Len(sch.Flows)
SizeOfSecurity(sec) == Len(sec.Schemes) + Len(sec.Scopes)
SizeOfEntry(e) == SizeOfSecurity(e.Security)
SizeOfFrame(f) ==
    IF f.kind = "scheme" THEN SizeOfScheme(f.scheme)
    ELSE IF f.kind = "security" THEN SizeOfSecurity(f.security)
    ELSE 0
NumSecDecls ==
    SumOver(schemes, SizeOfScheme) + SumOver(apiSecurity, SizeOfSecurity)
    + SumOver(serviceSecurity, SizeOfEntry) + SumOver(endpointSecurity, SizeOfEntry)
    + SumOver(stack, SizeOfFrame)

\* securitySchemeRedefined with a loop that gives up after the first scheme
securitySchemeRedefinedFirst(name) ==
    Len(schemes) > 0 /\ schemes[1].SchemeName = name

\* securitySchemeRedefined: some registered scheme already has the name
securitySchemeRedefined(name) ==
    \E i \in 1..Len(schemes) : schemes[i].SchemeName = name

----------------------------------------------------------------------------
(* Security DSL: scheme definitions *)

\* the definition fails: the nil it returns is a handle the design holds
ReturnNil == nilHandle' = TRUE

\* the body shared by BasicAuthSecurity, APIKeySecurity, OAuth2Security and
\* JWTSecurity up to the call of the builder; SchemeEnd is the rest
DefineScheme(kind, name, hasDsl) ==
    /\ pc = "design"
    /\ IF CurrentKind # "top" THEN
           /\ ReportError(stack, "IncompatibleDSL")
           /\ ReturnNil
           /\ UNCHANGED schemes
       ELSE IF securitySchemeRedefined(name) THEN
           /\ ReportError(stack, "redefined")
           /\ ReturnNil
           /\ UNCHANGED schemes
       ELSE IF hasDsl THEN
           /\ NumSecDecls < MaxSecDecls
           /\ stack' = Append(stack, Frame("scheme", "", "", SchemeExpr(kind, name), NoExpr))
           /\ NoError
           /\ UNCHANGED <<schemes, nilHandle>>
       ELSE
           /\ NumSecDecls < MaxSecDecls
           /\ schemes' = Append(schemes, SchemeExpr(kind, name))
           /\ lastRet' = SchemeExpr(kind, name)
           /\ lastErr' = "none"
           /\ UNCHANGED <<stack, nilHandle>>
    /\ UNCHANGED <<apiSecurity, serviceSecurity, endpointSecurity, pc>>
    /\ UNCHANGED <<genVars, clVars, locVars>>

BasicAuthSecurity ==
    \E name \in SchemeNames, hasDsl \in BOOLEAN : DefineScheme(BasicAuthKind, name, hasDsl)

APIKeySecurity ==
    \E name \in SchemeNames, hasDsl \in BOOLEAN : DefineScheme(APIKeyKind, name, hasDsl)

OAuth2Security ==
    \E name \in SchemeNames, hasDsl \in BOOLEAN : DefineScheme(OAuth2Kind, name, hasDsl)

JWTSecurity ==
    \E name \in SchemeNames, hasDsl \in BOOLEAN : DefineScheme(JWTKind, name, hasDsl)

\* the builder of a scheme returns: eval.Execute pops the scheme and reports
\* whether the builder added errors; the scheme is registered only if not
SchemeEnd ==
    /\ pc = "design"
    /\ CurrentKind = "scheme"
    /\ stack' = Pop
    /\ IF Current.failed THEN
           /\ ReturnNil
           /\ lastRet' = NilScheme
           /\ UNCHANGED schemes
       ELSE
           /\ schemes' = Append(schemes, Current.scheme)
           /\ lastRet' = Current.scheme
           /\ UNCHANGED nilHandle
    /\ lastErr' = "none"
    /\ UNCHANGED <<apiSecurity, serviceSecurity, endpointSecurity, pc>>
    /\ UNCHANGED <<genVars, clVars, locVars>>

\* replace the expression on top of the stack
SetCurrentScheme(sch) == stack' = [stack EXCEPT ![Len(stack)].scheme = sch]
SetCurrentSecurity(sec) == stack' = [stack EXCEPT ![Len(stack)].security = sec]

\* Scope: defines a scope in a scheme, requires one in Security
Scope ==
    \E name \in ScopeNames, ndesc \in 0..2 :
        /\ pc = "design"
        /\ IF CurrentKind = "security" THEN
               IF ndesc >= 1 THEN
                   ReportError(stack, "too many arguments")
               ELSE
                   /\ NumSecDecls < MaxSecDecls
                   /\ SetCurrentSecurity([Current.security EXCEPT
                                             !.Scopes = Append(@, name)])
                   /\ NoError
           ELSE IF CurrentKind = "scheme" THEN
               IF ndesc > 1 THEN
                   ReportError(stack, "too many arguments")
               ELSE
                   /\ NumSecDecls < MaxSecDecls
                   /\ SetCurrentScheme([Current.scheme EXCEPT
                          !.Scopes = Append(@, [Name |-> name,
                              Description |-> IF ndesc = 1 THEN "desc"
                                              ELSE "no description"])])
                   /\ NoError
           ELSE
               ReportError(stack, "IncompatibleDSL")
        /\ UNCHANGED <<schemes, apiSecurity, serviceSecurity, endpointSecurity,
                       nilHandle, pc>>
        /\ UNCHANGED <<genVars, clVars, locVars>>

\* the body of a flow function without the test of the scheme's kind
AddFlowAnyKind(flow) ==
    /\ pc = "design"
    /\ IF CurrentKind # "scheme" THEN
           ReportError(stack, "IncompatibleDSL")
       ELSE
           /\ NumSecDecls < MaxSecDecls
           /\ SetCurrentScheme([Current.scheme EXCEPT !.Flows = Append(@, flow)])
           /\ NoError
    /\ UNCHANGED <<schemes, apiSecurity, serviceSecurity, endpointSecurity,
                   nilHandle, pc>>
    /\ UNCHANGED <<genVars, clVars, locVars>>

\* the body shared by the four flow functions
AddFlow(flow) ==
    /\ pc = "design"
    /\ IF CurrentKind # "scheme" THEN
           ReportError(stack, "IncompatibleDSL")
       ELSE IF Current.scheme.Kind # OAuth2Kind THEN
           ReportError(stack, "flow for non-oauth2")
       ELSE
           /\ NumSecDecls < MaxSecDecls
           /\ SetCurrentScheme([Current.scheme EXCEPT !.Flows = Append(@, flow)])
           /\ NoError
    /\ UNCHANGED <<schemes, apiSecurity, serviceSecurity, endpointSecurity,
                   nilHandle, pc>>
    /\ UNCHANGED <<genVars, clVars, locVars>>

AuthorizationCodeFlow == AddFlow(FlowExpr("AuthorizationCodeFlowKind", "auth", "token", "refresh"))
ImplicitFlow == AddFlow(FlowExpr("ImplicitFlowKind", "auth", "", "refresh"))
PasswordFlow == AddFlow(FlowExpr("PasswordFlowKind", "", "token", "refresh"))
ClientCredentialsFlow == AddFlow(FlowExpr("ClientCredentialsFlowKind", "", "token", "refresh"))

----------------------------------------------------------------------------
(* Security DSL: requirements *)

\* the arguments the design gives Security: a scheme name or a scheme handle
\* returned by an earlier definition (nil after a failed one)
SecurityArgs ==
    [type : {"string"}, name : SchemeNames \cup {"missing"}, val : {NilScheme}]
    \cup [type : {"scheme"}, name : {""},
          val : SeqRange(schemes) \cup (IF nilHandle THEN {NilScheme} ELSE {})]

\* the argument lists the design has room for
ArgLists == UNION {[1..n -> SecurityArgs] : n \in 1..(MaxSecDecls - NumSecDecls)}

\* the loop over design.Root.Schemes that resolves a name: the first scheme
\* of that name, nil when there is none
RECURSIVE LookupFrom(_, _)
LookupFrom(i, name) ==
    IF i > Len(schemes) THEN NilScheme
    ELSE IF schemes[i].SchemeName = name THEN schemes[i]
    ELSE LookupFrom(i + 1, name)

\* the loop over the arguments of Security going on to the next argument
\* when a name is not found
RECURSIVE ResolveFromSkip(_, _, _)
ResolveFromSkip(i, args, acc) ==
    IF i > Len(args) THEN [err |-> "none", schemes |-> acc]
    ELSE IF args[i].type = "string" THEN
        IF LookupFrom(1, args[i].name) = NilScheme
        THEN ResolveFromSkip(i + 1, args, acc)
        ELSE ResolveFromSkip(i + 1, args, Append(acc, LookupFrom(1, args[i].name)))
    ELSE IF args[i].type = "scheme" THEN
        ResolveFromSkip(i + 1, args, Append(acc, args[i].val))
    ELSE [err |-> "InvalidArg", schemes |-> acc]

\* the loop over the arguments of Security: the schemes resolved so far, or
\* the error of the first argument that does not resolve
RECURSIVE ResolveFrom(_, _, _)
ResolveFrom(i, args, acc) ==
    IF i > Len(args) THEN [err |-> "none", schemes |-> acc]
    ELSE IF args[i].type = "string" THEN
        IF LookupFrom(1, args[i].name) = NilScheme
        THEN [err |-> "not found", schemes |-> acc]
        ELSE ResolveFrom(i + 1, args, Append(acc, LookupFrom(1, args[i].name)))
    ELSE IF args[i].type = "scheme" THEN
        ResolveFrom(i + 1, args, Append(acc, args[i].val))
    ELSE [err |-> "InvalidArg", schemes |-> acc]

Resolve(args) == ResolveFrom(1, args, <<>>)

\* the switch with the requirement of a method put in the list of the services
AttachToService(security, stk) ==
    IF TopOf(stk).kind \in {"method", "service"} THEN
        /\ serviceSecurity' = Append(serviceSecurity,
               [Security |-> security, Service |-> TopOf(stk).svc])
        /\ stack' = stk
        /\ NoError
        /\ UNCHANGED <<apiSecurity, endpointSecurity>>
    ELSE IF TopOf(stk).kind = "api" THEN
        /\ apiSecurity' = Append(apiSecurity, security)
        /\ stack' = stk
        /\ NoError
        /\ UNCHANGED <<serviceSecurity, endpointSecurity>>
    ELSE
        /\ ReportError(stk, "IncompatibleDSL")
        /\ UNCHANGED <<apiSecurity, serviceSecurity, endpointSecurity>>

\* the switch on eval.Current() that ends Security, with stack stk: the
\* requirement goes to the list of the current context
Attach(security, stk) ==
    IF TopOf(stk).kind = "method" THEN
        /\ endpointSecurity' = Append(endpointSecurity,
               [Security |-> security, Method |-> <<TopOf(stk).svc, TopOf(stk).meth>>])
        /\ stack' = stk
        /\ NoError
        /\ UNCHANGED <<apiSecurity, serviceSecurity>>
    ELSE IF TopOf(stk).kind = "service" THEN
        /\ serviceSecurity' = Append(serviceSecurity,
               [Security |-> security, Service |-> TopOf(stk).svc])
        /\ stack' = stk
        /\ NoError
        /\ UNCHANGED <<apiSecurity, endpointSecurity>>
    ELSE IF TopOf(stk).kind = "api" THEN
        /\ apiSecurity' = Append(apiSecurity, security)
        /\ stack' = stk
        /\ NoError
        /\ UNCHANGED <<serviceSecurity, endpointSecurity>>
    ELSE
        /\ ReportError(stk, "IncompatibleDSL")
        /\ UNCHANGED <<apiSecurity, serviceSecurity, endpointSecurity>>

\* Security up to the call of its builder (Security as a whole when it is
\* given none); SecurityEnd is the rest
SecurityWith(args, hasDsl) ==
    /\ pc = "design"
    /\ LET r == Resolve(args) IN
       IF r.err # "none" THEN
           /\ ReportError(stack, r.err)
           /\ UNCHANGED <<apiSecurity, serviceSecurity, endpointSecurity>>
       ELSE IF hasDsl THEN
           /\ stack' = Append(stack, Frame("security", "", "", NilScheme,
                                           SecurityExpr(r.schemes)))
           /\ NoError
           /\ UNCHANGED <<apiSecurity, serviceSecurity, endpointSecurity>>
       ELSE
           Attach(SecurityExpr(r.schemes), stack)
    /\ UNCHANGED <<schemes, nilHandle, pc>>
    /\ UNCHANGED <<genVars, clVars, locVars>>

Security ==
    \E args \in ArgLists, hasDsl \in BOOLEAN : SecurityWith(args, hasDsl)

\* the builder of Security returns: eval.Execute pops the requirement, and
\* the requirement is recorded only if the builder added no error
SecurityEnd ==
    /\ pc = "design"
    /\ CurrentKind = "security"
    /\ IF Current.failed THEN
           /\ stack' = Pop
           /\ NoError
           /\ UNCHANGED <<apiSecurity, serviceSecurity, endpointSecurity>>
       ELSE
           Attach(Current.security, Pop)
    /\ UNCHANGED <<schemes, nilHandle, pc>>
    /\ UNCHANGED <<genVars, clVars, locVars>>

\* the requirement NoSecurity records: one scheme of kind NoKind
NoSecurityExpr == SecurityExpr(<<SchemeExpr(NoKind, "")>>)

NoSecurity ==
    /\ pc = "design"
    /\ IF CurrentKind = "method" THEN
           /\ NumSecDecls < MaxSecDecls
           /\ endpointSecurity' = Append(endpointSecurity,
                  [Security |-> NoSecurityExpr, Method |-> <<Current.svc, Current.meth>>])
           /\ NoError
           /\ UNCHANGED stack
       ELSE
           /\ ReportError(stack, "IncompatibleDSL")
           /\ UNCHANGED endpointSecurity
    /\ UNCHANGED <<schemes, apiSecurity, serviceSecurity, nilHandle, pc>>
    /\ UNCHANGED <<genVars, clVars, locVars>>

----------------------------------------------------------------------------
(* The design: expressions of goa's expr package, as the assembler reads them *)

Lit(name) == [wild |-> FALSE, name |-> name]
Wild(name) == [wild |-> TRUE, name |-> name]

\* route paths, as their segments: "/", "/add/{x}", "/same"
PathRoot == <<>>
PathAdd == <<Lit("add"), Wild("x")>>
PathSame == <<Lit("same")>>

\* the path templates of the model in the order of their strings, which is
\* the order encoding/json gives the keys of a map
PathPool == <<PathRoot, PathAdd, PathSame>>

\* expr.AttributeExpr of a mapped attribute: its name, the name of the HTTP
\* element it maps to, and what the DSL recorded about it
Attr(name, elem, required, isArray, meta) ==
    [Name |-> name, Elem |-> elem, Required |-> required, IsArray |-> isArray,
     Description |-> "", Meta |-> meta]

\* *expr.MappedAttributeExpr, possibly nil
NilParams == [isNil |-> TRUE, attrs |-> <<>>]
Params(attrs) == [isNil |-> FALSE, attrs |-> attrs]

\* expr.ExtractHTTPWildcards: the names of the wildcards of a path, in order
RECURSIVE ExtractHTTPWildcards(_)
ExtractHTTPWildcards(path) ==
    IF path = <<>> THEN <<>>
    ELSE IF Head(path).wild
         THEN <<Head(path).name>> \o ExtractHTTPWildcards(Tail(path))
         ELSE ExtractHTTPWildcards(Tail(path))

----------------------------------------------------------------------------
(* The assembler: NewV3 and what it calls *)

\* paramFor: the parameter of an attribute; an array explodes
paramFor(at, name, in, required) ==
    [In |-> in, Name |-> name, Description |-> at.Description,
     Required |-> required, Explode |-> IF at.IsArray THEN "true" ELSE "nil"]

\* the callback without "required = true" for a path parameter
ParamOfDeclared(at, wildcards) ==
    IF \E i \in 1..Len(wildcards) : at.Name = wildcards[i]
    THEN paramFor(at, at.Elem, "path", at.Required)
    ELSE paramFor(at, at.Elem, "query", at.Required)

\* the callback paramsFromExpr hands to codegen.WalkMappedAttr
ParamOf(at, wildcards) ==
    IF \E i \in 1..Len(wildcards) : at.Name = wildcards[i]
    THEN paramFor(at, at.Elem, "path", TRUE)
    ELSE paramFor(at, at.Elem, "query", at.Required)

\* paramsFromExpr: nil for nil params, else one parameter per attribute
paramsFromExpr(params, path) ==
    IF params.isNil THEN <<>>
    ELSE [i \in 1..Len(params.attrs) |->
             ParamOf(params.attrs[i], ExtractHTTPWildcards(path))]

\* a nil *openapi3.SecurityRequirements
NilSecurity == [isNil |-> TRUE, reqs |-> <<>>]

\* an operation id that leaves the service out
OperationIDMethodOnly(s, e) == e.Name

\* fmt.Sprintf("%s#%s", s.Name(), e.Name())
OperationID(s, e) == s.Name \o "#" \o e.Name

\* an operation that carries the requirements of its service, whatever its
\* method declares
operationServiceSecurity(s, e, r) ==
    [OperationID |-> OperationID(s, e),
     Description |-> e.Description,
     Parameters |-> paramsFromExpr(e.Params, r.Path),
     Responses |-> <<>>,
     Security |-> LET reqs == SelectSeq(serviceSecurity, LAMBDA x : x.Service = s.Name)
                  IN IF reqs = <<>> THEN NilSecurity
                     ELSE [isNil |-> FALSE, reqs |-> reqs]]

\* operation: the operation of one route of endpoint e of service s
operation(s, e, r) ==
    [OperationID |-> OperationID(s, e),
     Description |-> e.Description,
     Parameters |-> paramsFromExpr(e.Params, r.Path),
     Responses |-> <<>>,
     Security |-> NilSecurity]

\* a nil *openapi3.Operation
NilOperation ==
    [OperationID |-> "", Description |-> "", Parameters |-> <<>>,
     Responses |-> <<>>, Security |-> NilSecurity]

\* &openapi3.PathItem{}
EmptyPathItem ==
    [Get |-> NilOperation, Post |-> NilOperation,
     Put |-> NilOperation, Delete |-> NilOperation]

\* the three nested loops of paths: every route with its endpoint and service
RECURSIVE RoutesOfEndpoint(_, _, _)
RoutesOfEndpoint(s, e, i) ==
    IF i > Len(e.Routes) THEN <<>>
    ELSE <<[s |-> s, e |-> e, r |-> e.Routes[i]]>> \o RoutesOfEndpoint(s, e, i + 1)

RECURSIVE RoutesOfService(_, _)
RoutesOfService(s, i) ==
    IF i > Len(s.HTTPEndpoints) THEN <<>>
    ELSE RoutesOfEndpoint(s, s.HTTPEndpoints[i], 1) \o RoutesOfService(s, i + 1)

RECURSIVE RoutesOfServices(_, _)
RoutesOfServices(ss, i) ==
    IF i > Len(ss) THEN <<>>
    ELSE RoutesOfService(ss[i], 1) \o RoutesOfServices(ss, i + 1)

\* the body of the innermost loop of paths
SetRoute(acc, t) ==
    LET path == IF t.r.Path \in DOMAIN acc THEN acc[t.r.Path] ELSE EmptyPathItem
        item == [path EXCEPT !.Get = operation(t.s, t.e, t.r)]
    IN [p \in DOMAIN acc \cup {t.r.Path} |-> IF p = t.r.Path THEN item ELSE acc[p]]

RECURSIVE PathsFrom(_, _, _)
PathsFrom(ts, i, acc) ==
    IF i > Len(ts) THEN acc ELSE PathsFrom(ts, i + 1, SetRoute(acc, ts[i]))

\* paths: the path items of the document, by route path
paths(r) == PathsFrom(RoutesOfServices(r.API.HTTP.Services, 1), 1, <<>>)

\* contact, license: a copy of the expression, nil for nil
contact(c) ==
    IF c.isNil THEN [isNil |-> TRUE, Name |-> "", URL |-> "", Email |-> ""]
    ELSE [isNil |-> FALSE, Name |-> c.Name, URL |-> c.URL, Email |-> c.Email]

license(l) ==
    IF l.isNil THEN [isNil |-> TRUE, Name |-> "", URL |-> ""]
    ELSE [isNil |-> FALSE, Name |-> l.Name, URL |-> l.URL]

\* info: the API's metadata, "unversioned" when it declares no version
info(api) ==
    [Title |-> api.Title,
     Description |-> api.Description,
     TermsOfService |-> api.TermsOfService,
     Contact |-> contact(api.Contact),
     License |-> license(api.License),
     Version |-> IF api.Version # "" THEN api.Version ELSE "unversioned"]

RECURSIVE ServersOfHost(_, _)
ServersOfHost(host, i) ==
    IF i > Len(host.URIs) THEN <<>>
    ELSE <<[URL |-> host.URIs[i], Description |-> host.Description]>>
         \o ServersOfHost(host, i + 1)

RECURSIVE ServersOfHosts(_, _)
ServersOfHosts(hosts, i) ==
    IF i > Len(hosts) THEN <<>>
    ELSE ServersOfHost(hosts[i], 1) \o ServersOfHosts(hosts, i + 1)

RECURSIVE ServersFrom(_, _)
ServersFrom(s, i) ==
    IF i > Len(s) THEN <<>>
    ELSE ServersOfHosts(s[i].Hosts, 1) \o ServersFrom(s, i + 1)

\* servers: one server per URI of every host of every server, in order
servers(s) == ServersFrom(s, 1)

\* NewV3: the document of a root; it never fails
NewV3(r) ==
    [spec |-> [OpenAPI |-> "3.0.0",
               Info |-> info(r.API),
               Servers |-> servers(r.API.Servers),
               Paths |-> paths(r),
               Security |-> NilSecurity],
     err |-> "nil"]

----------------------------------------------------------------------------
(* The generator: Generate, openapiFiles, toJSON *)

\* filepath.Join
Join(elems) ==
    IF Len(elems) = 0 THEN ""
    ELSE LET F[i \in 1..Len(elems)] ==
                 IF i = 1 THEN elems[1] ELSE F[i - 1] \o "/" \o elems[i]
         IN F[Len(elems)]

\* codegen.Gendir
Gendir == "gen"

\* a codegen.File with one section template
File(path, source, data) ==
    [Path |-> path,
     SectionTemplates |-> <<[Name |-> "openapi", Source |-> source, Data |-> data]>>]

\* openapiFiles without the test for HTTP services
openapiFilesAlways(r) ==
    LET v3 == NewV3(r) IN
    [files |-> <<File(Join(<<Gendir, "http", "openapi.json">>), "{{ toJSON .}}", v3.spec),
                 File(Join(<<Gendir, "http", "openapi.yaml">>), "{{ toYAML .}}", v3.spec)>>,
     err |-> "nil"]

\* openapiFiles returning the YAML file first
openapiFilesSwapped(r) ==
    IF Len(r.API.HTTP.Services) = 0 THEN [files |-> <<>>, err |-> "nil"]
    ELSE LET v3 == NewV3(r) IN
         [files |-> <<File(Join(<<Gendir, "http", "openapi.yaml">>), "{{ toYAML .}}", v3.spec),
                      File(Join(<<Gendir, "http", "openapi.json">>), "{{ toJSON .}}", v3.spec)>>,
          err |-> "nil"]

\* openapiFiles: the JSON and the YAML file of a root, none without services
openapiFiles(r) ==
    IF Len(r.API.HTTP.Services) = 0 THEN [files |-> <<>>, err |-> "nil"]
    ELSE LET v3 == NewV3(r) IN
         IF v3.err # "nil" THEN [files |-> <<>>, err |-> v3.err]
         ELSE [files |-> <<File(Join(<<Gendir, "http", "openapi.json">>),
                                "{{ toJSON .}}", v3.spec),
                           File(Join(<<Gendir, "http", "openapi.yaml">>),
                                "{{ toYAML .}}", v3.spec)>>,
               err |-> "nil"]

\* the loop of Generate over the roots, from root i on
RECURSIVE GenerateFrom(_, _, _)
GenerateFrom(rs, i, fs) ==
    IF i > Len(rs) THEN [files |-> fs, err |-> "nil"]
    ELSE IF rs[i].kind # "RootExpr" THEN GenerateFrom(rs, i + 1, fs)
    ELSE LET o == openapiFiles(rs[i]) IN
         IF o.err # "nil" THEN [files |-> fs, err |-> o.err]
         ELSE GenerateFrom(rs, i + 1, fs \o o.files)

\* Generate: the files of every root appended to the incoming files
Generate ==
    /\ pc = "design"
    /\ stack = <<>>
    /\ LET g == GenerateFrom(roots, 1, files) IN
           /\ genFiles' = g.files
           /\ genErr' = g.err
    /\ pc' = "generated"
    /\ NoError
    /\ UNCHANGED <<roots, files, outs>>
    /\ UNCHANGED <<schemes, apiSecurity, serviceSecurity, endpointSecurity, stack,
                   nilHandle>>
    /\ UNCHANGED <<clVars, locVars>>

\* the place of a path in the order of the keys
Rank(p) == CHOOSE i \in 1..Len(PathPool) : PathPool[i] = p

\* sort.Slice over the map keys, as encoding/json does before writing a map
RECURSIVE Insert(_, _)
Insert(k, sorted) ==
    IF sorted = <<>> THEN <<k>>
    ELSE IF Rank(k) <= Rank(Head(sorted)) THEN <<k>> \o sorted
    ELSE <<Head(sorted)>> \o Insert(k, Tail(sorted))

RECURSIVE SortKeys(_)
SortKeys(keys) ==
    IF keys = <<>> THEN <<>> ELSE Insert(Head(keys), SortKeys(Tail(keys)))

\* a marshaller that writes a map in the order it iterates it
toJSONUnsorted(d, iter) ==
    [openapi |-> d.OpenAPI, info |-> d.Info, servers |-> d.Servers,
     paths |-> [i \in 1..Len(iter) |-> [key |-> iter[i], item |-> d.Paths[iter[i]]]]]

\* toJSON: json.Marshal of a document whose map is iterated in the order
\* iter; the keys of a map are written sorted
toJSON(d, iter) ==
    [openapi |-> d.OpenAPI, info |-> d.Info, servers |-> d.Servers,
     paths |-> [i \in 1..Len(iter) |->
                   [key |-> SortKeys(iter)[i], item |-> d.Paths[SortKeys(iter)[i]]]]]

\* the orders in which a map with these keys can be iterated
Orders(keys) ==
    {o \in [1..Cardinality(keys) -> keys] :
        \A i, j \in 1..Cardinality(keys) : i # j => o[i] # o[j]}

\* a section template is written: the JSON document of a generated file,
\* with the map of its paths iterated in the order iter
Write ==
    /\ pc = "generated"
    /\ \E i \in 1..Len(genFiles) :
          /\ genFiles[i].SectionTemplates[1].Source = "{{ toJSON .}}"
          /\ LET d == genFiles[i].SectionTemplates[1].Data IN
             \E iter \in Orders(DOMAIN d.Paths) :
                 outs' = outs \cup {[file |-> i, iter |-> iter, text |-> toJSON(d, iter)]}
    /\ UNCHANGED <<roots, files, genFiles, genErr, pc>>
    /\ UNCHANGED <<dslVars, clVars, locVars>>

----------------------------------------------------------------------------
(* The designs the generator is run on *)

NilContact == [isNil |-> TRUE, Name |-> "", URL |-> "", Email |-> ""]
NilLicense == [isNil |-> TRUE, Name |-> "", URL |-> ""]

APIExpr(title, desc, tos, c, l, version, srvs) ==
    [Title |-> title, Description |-> desc, TermsOfService |-> tos, Contact |-> c,
     License |-> l, Version |-> version, Servers |-> srvs,
     HTTP |-> [Services |-> <<>>]]

\* the API of testdata.FullDSL
APIFull ==
    APIExpr("test api", "an api to test openapi3", "https://example.com/tos",
            [isNil |-> FALSE, Name |-> "name", URL |-> "https://example.com",
             Email |-> "test@test.com"],
            [isNil |-> FALSE, Name |-> "license", URL |-> "https://example.com/license"],
            "",
            <<[Hosts |-> <<[Description |-> "", URIs |-> <<"https://goa.design">>]>>]>>)

\* an API with a version and servers with several hosts and URIs
APIVersioned ==
    APIExpr("calc", "", "", NilContact, NilLicense, "1.0",
            <<[Hosts |-> <<[Description |-> "dev", URIs |-> <<"http://a", "http://b">>],
                           [Description |-> "prod", URIs |-> <<"https://c">>]>>]>>)

APIs == {APIFull, APIVersioned}

RootExpr(api) == [kind |-> "RootExpr", API |-> api]

\* a root of another package, as plugins register them
OtherRootExpr ==
    [kind |-> "other", API |-> APIExpr("", "", "", NilContact, NilLicense, "", <<>>)]

ServiceNames == {"calc", "testService"}
MethodNames == {"add", "sub"}
Verbs == {"GET", "POST"}
RoutePaths == {PathAdd, PathSame}

\* the payload of the method "add": x required, y optional
ParamsXY == Params(<<Attr("x", "x", TRUE, FALSE, "none"), Attr("y", "y", FALSE, FALSE, "none")>>)
\* the parameters each method of the model declares
MethodParams(name) == IF name = "add" THEN ParamsXY ELSE NilParams

ServiceExpr(name) == [Name |-> name, HTTPEndpoints |-> <<>>]
EndpointExpr(name, params) ==
    [Name |-> name, Description |-> "", Params |-> params, Routes |-> <<>>]
RouteExpr(verb, path) == [Method |-> verb, Path |-> path]

NumRoutesOfService(sv) == LET F(e) == Len(e.Routes) IN SumOver(sv.HTTPEndpoints, F)
NumRoutesOfRoot(r) == SumOver(r.API.HTTP.Services, NumRoutesOfService)
NumEndpointsOfRoot(r) ==
    LET F(sv) == Len(sv.HTTPEndpoints) IN SumOver(r.API.HTTP.Services, F)
NumServicesOfRoot(r) == Len(r.API.HTTP.Services)

\* the declarations of the design: its roots, services, methods and routes
NumDecls ==
    Len(roots) + SumOver(roots, NumServicesOfRoot)
    + SumOver(roots, NumEndpointsOfRoot) + SumOver(roots, NumRoutesOfRoot)

LastRoot == roots[Len(roots)]
LastServices == LastRoot.API.HTTP.Services
LastService == LastServices[Len(LastServices)]

\* the design declares an API: a root of the expr package
API ==
    \E api \in APIs :
        /\ pc = "design"
        /\ NumDecls < MaxDecls
        /\ roots' = Append(roots, RootExpr(api))
        /\ UNCHANGED <<files, genFiles, genErr, pc, outs>>
        /\ UNCHANGED <<dslVars, clVars, locVars>>

\* a plugin registers a root of its own
PluginRoot ==
    /\ pc = "design"
    /\ NumDecls < MaxDecls
    /\ roots' = Append(roots, OtherRootExpr)
    /\ UNCHANGED <<files, genFiles, genErr, pc, outs>>
    /\ UNCHANGED <<dslVars, clVars, locVars>>

\* the design declares a service with an HTTP transport
Service ==
    \E name \in ServiceNames :
        /\ pc = "design"
        /\ roots # <<>>
        /\ LastRoot.kind = "RootExpr"
        /\ NumDecls < MaxDecls
        /\ \A i \in 1..Len(LastServices) : LastServices[i].Name # name
        /\ roots' = [roots EXCEPT ![Len(roots)].API.HTTP.Services =
                        Append(@, ServiceExpr(name))]
        /\ UNCHANGED <<files, genFiles, genErr, pc, outs>>
        /\ UNCHANGED <<dslVars, clVars, locVars>>

\* the design declares a method of the last service
Method ==
    \E name \in MethodNames :
        /\ pc = "design"
        /\ roots # <<>>
        /\ LastRoot.kind = "RootExpr"
        /\ LastServices # <<>>
        /\ NumDecls < MaxDecls
        /\ \A i \in 1..Len(LastService.HTTPEndpoints) :
               LastService.HTTPEndpoints[i].Name # name
        /\ roots' = [roots EXCEPT
               ![Len(roots)].API.HTTP.Services[Len(LastServices)].HTTPEndpoints =
                   Append(@, EndpointExpr(name, MethodParams(name)))]
        /\ UNCHANGED <<files, genFiles, genErr, pc, outs>>
        /\ UNCHANGED <<dslVars, clVars, locVars>>

\* the design declares a route of the last method
Route ==
    \E verb \in Verbs, path \in RoutePaths :
        /\ pc = "design"
        /\ roots # <<>>
        /\ LastRoot.kind = "RootExpr"
        /\ LastServices # <<>>
        /\ LastService.HTTPEndpoints # <<>>
        /\ NumDecls < MaxDecls
        /\ roots' = [roots EXCEPT
               ![Len(roots)].API.HTTP.Services[Len(LastServices)]
                   .HTTPEndpoints[Len(LastService.HTTPEndpoints)].Routes =
                   Append(@, RouteExpr(verb, path))]
        /\ UNCHANGED <<files, genFiles, genErr, pc, outs>>
        /\ UNCHANGED <<dslVars, clVars, locVars>>

\* files generated by goa before the plugin runs
GoFile == [Path |-> "gen/calc/service.go",
           SectionTemplates |-> <<[Name |-> "source-header", Source |-> "", Data |-> "go"]>>]
IncomingFiles == {<<>>, <<GoFile>>}

DslInit ==
    /\ schemes = <<>>
    /\ apiSecurity = <<>>
    /\ serviceSecurity = <<>>
    /\ endpointSecurity = <<>>
    /\ stack = <<>>
    /\ lastErr = "none"
    /\ lastRet = NilScheme
    /\ nilHandle = FALSE

ClIdle ==
    /\ clParams = NilParams
    /\ clPath = PathRoot
    /\ clRes = <<>>

LocIdle ==
    /\ goaI18n = <<>>
    /\ locales = <<>>
    /\ li = 0
    /\ outputs = <<>>

InitGen ==
    /\ DslInit
    /\ ClIdle
    /\ LocIdle
    /\ roots = <<>>
    /\ files \in IncomingFiles
    /\ genFiles = <<>>
    /\ genErr = "nil"
    /\ pc = "design"
    /\ outs = {}

NextGen == API \/ PluginRoot \/ Service \/ Method \/ Route \/ Generate \/ Write

SpecGen == InitGen /\ [][NextGen]_vars

----------------------------------------------------------------------------
(* The evaluation of a design that uses the security DSL *)

\* the design of the calc service: its method add, at GET /add/{x} and at
\* GET /same
CalcRoot ==
    [kind |-> "RootExpr",
     API |-> [APIFull EXCEPT !.HTTP.Services =
        <<[Name |-> "calc",
           HTTPEndpoints |->
             <<[EndpointExpr("add", ParamsXY) EXCEPT
                   !.Routes = <<RouteExpr("GET", PathAdd), RouteExpr("GET", PathSame)>>]
             >>]>>]]

\* the DSL of the API is run: eval.Execute pushes the API expression
RunAPI ==
    /\ pc = "design"
    /\ stack = <<>>
    /\ stack' = Append(stack, Frame("api", "", "", NilScheme, NoExpr))
    /\ NoError
    /\ UNCHANGED <<schemes, apiSecurity, serviceSecurity, endpointSecurity,
                   nilHandle, pc>>
    /\ UNCHANGED <<genVars, clVars, locVars>>

\* the DSL of a service is run
RunService ==
    \E r \in 1..Len(roots) : \E i \in 1..Len(roots[r].API.HTTP.Services) :
        /\ pc = "design"
        /\ stack = <<>>
        /\ stack' = Append(stack, Frame("service", roots[r].API.HTTP.Services[i].Name,
                                        "", NilScheme, NoExpr))
        /\ NoError
        /\ UNCHANGED <<schemes, apiSecurity, serviceSecurity, endpointSecurity,
                       nilHandle, pc>>
        /\ UNCHANGED <<genVars, clVars, locVars>>

\* the DSL of a method is run, inside the DSL of its service
RunMethod ==
    \E r \in 1..Len(roots) : \E i \in 1..Len(roots[r].API.HTTP.Services) :
        \E j \in 1..Len(roots[r].API.HTTP.Services[i].HTTPEndpoints) :
            /\ pc = "design"
            /\ CurrentKind = "service"
            /\ Current.svc = roots[r].API.HTTP.Services[i].Name
            /\ stack' = Append(stack,
                   Frame("method", Current.svc,
                         roots[r].API.HTTP.Services[i].HTTPEndpoints[j].Name,
                         NilScheme, NoExpr))
            /\ NoError
            /\ UNCHANGED <<schemes, apiSecurity, serviceSecurity, endpointSecurity,
                           nilHandle, pc>>
            /\ UNCHANGED <<genVars, clVars, locVars>>

\* the DSL of an API, a service or a method returns: eval.Execute pops it
EndDSL ==
    /\ pc = "design"
    /\ CurrentKind \in {"api", "service", "method"}
    /\ stack' = Pop
    /\ NoError
    /\ UNCHANGED <<schemes, apiSecurity, serviceSecurity, endpointSecurity,
                   nilHandle, pc>>
    /\ UNCHANGED <<genVars, clVars, locVars>>

Init ==
    /\ DslInit
    /\ ClIdle
    /\ LocIdle
    /\ roots = <<CalcRoot>>
    /\ files = <<>>
    /\ genFiles = <<>>
    /\ genErr = "nil"
    /\ pc = "design"
    /\ outs = {}

Next ==
    \/ BasicAuthSecurity \/ APIKeySecurity \/ OAuth2Security \/ JWTSecurity
    \/ SchemeEnd
    \/ Scope
    \/ AuthorizationCodeFlow \/ ImplicitFlow \/ PasswordFlow \/ ClientCredentialsFlow
    \/ Security \/ SecurityEnd \/ NoSecurity
    \/ RunAPI \/ RunService \/ RunMethod \/ EndDSL
    \/ Generate

Spec == Init /\ [][Next]_vars

----------------------------------------------------------------------------
(* The parameter classifier on its own *)

AttrNames == {"x", "y"}

\* the name of the HTTP element an attribute maps to: its own, or another
ElemNames(n) == {n, n \o "Param"}

\* the metadata the security DSL sets on an attribute: Username, Password,
\* APIKey, AccessToken, Token
SecurityTags ==
    {"security:username", "security:password", "security:apikey:key",
     "security:accesstoken", "security:token"}

Attrs ==
    UNION {{Attr(n, e, req, arr, meta) :
               e \in ElemNames(n), req \in BOOLEAN, arr \in BOOLEAN,
               meta \in {"none"} \cup SecurityTags} : n \in AttrNames}

\* the attributes of an object: their names differ
AttrLists ==
    UNION {{as \in [1..n -> Attrs] :
               \A i, j \in 1..n : i # j => as[i].Name # as[j].Name} :
           n \in 0..MaxAttrs}

PathXY == <<Lit("add"), Wild("x"), Wild("y")>>
ClassifyPaths == {PathRoot, PathAdd, PathSame, PathXY}

InitClassify ==
    /\ DslInit
    /\ LocIdle
    /\ roots = <<>>
    /\ files = <<>>
    /\ genFiles = <<>>
    /\ genErr = "nil"
    /\ outs = {}
    /\ pc = "classify"
    /\ clParams \in {NilParams} \cup {Params(as) : as \in AttrLists}
    /\ clPath \in ClassifyPaths
    /\ clRes = <<>>

\* operation calls paramsFromExpr on the parameters of an endpoint and the
\* path of one of its routes
Classify ==
    /\ pc = "classify"
    /\ clRes' = paramsFromExpr(clParams, clPath)
    /\ pc' = "classified"
    /\ UNCHANGED <<clParams, clPath>>
    /\ UNCHANGED <<dslVars, genVars, locVars>>

NextClassify == Classify

SpecClassify == InitClassify /\ [][NextClassify]_vars

----------------------------------------------------------------------------
(* The i18n plugin: one document pair per configured locale *)

LocaleCodes == {"en", "nl", "de_DE"}

\* the locale list of a configuration: its locales in order, each once
RECURSIVE Dedupe(_)
Dedupe(ls) ==
    IF ls = <<>> THEN <<>>
    ELSE LET init == Dedupe(SubSeq(ls, 1, Len(ls) - 1)) IN
         IF ls[Len(ls)] \in SeqRange(init) THEN init ELSE Append(init, ls[Len(ls)])

\* an output name that carries the locale in every pass
OutputNameSuffixed(i, l) == "openapi_" \o l

\* the output name of pass i, for locale l: bare for the default locale
OutputName(i, l) == IF i = 1 THEN "openapi" ELSE "openapi_" \o l

\* the document pair of a locale
DocumentPair(name, l) ==
    [locale |-> l, json |-> name \o ".json", yaml |-> name \o ".yaml"]

InitLocale ==
    /\ DslInit
    /\ ClIdle
    /\ roots = <<>>
    /\ files = <<>>
    /\ genFiles = <<>>
    /\ genErr = "nil"
    /\ outs = {}
    /\ pc = "locale-config"
    /\ goaI18n \in UNION {[1..n -> LocaleCodes] : n \in 0..MaxLocales}
    /\ locales = <<>>
    /\ li = 0
    /\ outputs = <<>>

\* the run reads GOA_I18N: no locale is a fatal configuration error
ResolveLocales ==
    /\ pc = "locale-config"
    /\ IF goaI18n = <<>> THEN
           /\ pc' = "locale-fatal"
           /\ UNCHANGED <<locales, li>>
       ELSE
           /\ locales' = Dedupe(goaI18n)
           /\ li' = 1
           /\ pc' = "locale-pass"
    /\ UNCHANGED <<goaI18n, outputs>>
    /\ UNCHANGED <<dslVars, genVars, clVars>>

\* the pass of locale li: its document pair is stored under its output name
LocalePass ==
    /\ pc = "locale-pass"
    /\ LET name == OutputName(li, locales[li]) IN
       outputs' = [n \in DOMAIN outputs \cup {name} |->
                      IF n = name THEN DocumentPair(name, locales[li]) ELSE outputs[n]]
    /\ li' = li + 1
    /\ pc' = IF li = Len(locales) THEN "locale-done" ELSE "locale-pass"
    /\ UNCHANGED <<goaI18n, locales>>
    /\ UNCHANGED <<dslVars, genVars, clVars>>

NextLocale == ResolveLocales \/ LocalePass

SpecLocale == InitLocale /\ [][NextLocale]_vars

----------------------------------------------------------------------------
(* Properties *)

SchemeKinds == {BasicAuthKind, APIKeyKind, OAuth2Kind, JWTKind}

SchemeNamesDistinct ==
    \A i, j \in 1..Len(schemes) : i # j => schemes[i].SchemeName # schemes[j].SchemeName

Registered(n) == \E i \in 1..Len(schemes) : schemes[i].SchemeName = n

DocRoots ==
    SelectSeq(roots, LAMBDA r : r.kind = "RootExpr" /\ Len(r.API.HTTP.Services) > 0)

\* the document of the k-th of these roots, as the data of its JSON file
DocOf(k) == genFiles[Len(files) + 2 * k - 1].SectionTemplates[1].Data

Slots == {"Get", "Post", "Put", "Delete"}

\* the operations of a document, by path and slot
OpsOf(d) == {o \in (DOMAIN d.Paths) \X Slots : d.Paths[o[1]][o[2]] # NilOperation}
OpAt(d, o) == d.Paths[o[1]][o[2]]

\* the requirement in force for an operation: its own, else the document's
EffectiveSecurity(d, op) ==
    IF ~op.Security.isNil THEN op.Security.reqs
    ELSE IF ~d.Security.isNil THEN d.Security.reqs
    ELSE <<>>

\* the methods NoSecurity was declared in
NoSecurityMethods ==
    {es.Method : es \in {x \in SeqRange(endpointSecurity) :
                            /\ x.Security.Schemes # <<>>
                            /\ x.Security.Schemes[1].Kind = NoKind}}

\* C2: in every generated document, the operations of a method that declares
\* NoSecurity have an empty effective security requirement, whatever the
\* service and the API declare
C2_NoSecurityEmpty ==
    pc = "generated" =>
        \A m \in NoSecurityMethods : \A k \in 1..Len(DocRoots) :
            \A o \in OpsOf(DocOf(k)) :
                OpAt(DocOf(k), o).OperationID = m[1] \o "#" \o m[2]
                    => EffectiveSecurity(DocOf(k), OpAt(DocOf(k), o)) = <<>>

\* C2 witness: a document generated for a method with NoSecurity whose
\* service requires a registered scheme
C2_Witness ==
    /\ pc = "generated"
    /\ <<"calc", "add">> \in NoSecurityMethods
    /\ serviceSecurity # <<>>
    /\ serviceSecurity[1].Service = "calc"
    /\ serviceSecurity[1].Security.Schemes[1] \in SeqRange(schemes)
    /\ Len(genFiles) = 2
    /\ \E o \in OpsOf(DocOf(1)) : OpAt(DocOf(1), o).OperationID = "calc#add"

\* the routes of a root, by the places of their service, method and route
RoutePlaces(r) ==
    {t \in (1..Len(r.API.HTTP.Services)) \X (1..MaxDecls) \X (1..MaxDecls) :
        /\ t[2] <= Len(r.API.HTTP.Services[t[1]].HTTPEndpoints)
        /\ t[3] <= Len(r.API.HTTP.Services[t[1]].HTTPEndpoints[t[2]].Routes)}
RouteAt(r, t) == r.API.HTTP.Services[t[1]].HTTPEndpoints[t[2]].Routes[t[3]]

\* two routes of different methods of the root have the same path and verb
ConflictingRoutes(r) ==
    \E t, u \in RoutePlaces(r) :
        /\ <<t[1], t[2]>> # <<u[1], u[2]>>
        /\ RouteAt(r, t).Path = RouteAt(r, u).Path
        /\ RouteAt(r, t).Method = RouteAt(r, u).Method

DocumentPaths == {"gen/http/openapi.json", "gen/http/openapi.yaml"}

\* C3: when two routes of different methods have the same path and verb,
\* Generate fails and returns no document file
C3_ConflictingRoutesFail ==
    (pc = "generated"
     /\ \E n \in 1..Len(roots) : roots[n].kind = "RootExpr" /\ ConflictingRoutes(roots[n]))
        => /\ genErr # "nil"
           /\ \A i \in 1..Len(genFiles) : genFiles[i].Path \notin DocumentPaths

WildcardNames(path) == {path[k].name : k \in {j \in 1..Len(path) : path[j].wild}}

\* C4: the classifier returns one parameter per attribute, in declaration
\* order; an attribute named like a wildcard of the path is a required path
\* parameter, any other a query parameter with its declared required flag
C4_Classifier ==
    pc = "classified" =>
        /\ Len(clRes) = Len(clParams.attrs)
        /\ \A i \in 1..Len(clRes) :
              /\ clRes[i].Name = clParams.attrs[i].Elem
              /\ IF clParams.attrs[i].Name \in WildcardNames(clPath)
                 THEN clRes[i].In = "path" /\ clRes[i].Required
                 ELSE /\ clRes[i].In = "query"
                      /\ clRes[i].Required = clParams.attrs[i].Required

\* C4 witness: an optional attribute classified path and required, followed
\* by an optional and by nothing else
C4_Witness ==
    /\ pc = "classified"
    /\ Len(clRes) = 2
    /\ ~clParams.attrs[1].Required
    /\ clRes[1].In = "path"
    /\ clRes[1].Required
    /\ clRes[2].In = "query"
    /\ ~clRes[2].Required

NoServices ==
    \A n \in 1..Len(roots) :
        roots[n].kind = "RootExpr" => Len(roots[n].API.HTTP.Services) = 0

\* C5: for a design without HTTP services Generate returns the incoming
\* files unchanged and no error
C5_NoServicesNoDocument ==
    (pc = "generated" /\ NoServices) => (genErr = "nil" /\ genFiles = files)

\* C5 witness: Generate has run on a design root without services and a
\* non-empty incoming file list
C5_Witness ==
    /\ pc = "generated"
    /\ NoServices
    /\ \E n \in 1..Len(roots) : roots[n].kind = "RootExpr"
    /\ files # <<>>
    /\ genFiles = files

\* C6: a run over a non-empty locale list leaves one document pair per
\* locale: the default locale's under openapi.json/openapi.yaml and never
\* under a locale-suffixed name, every other locale L's under
\* openapi_L.json/openapi_L.yaml
C6_LocalePairs ==
    pc = "locale-done" =>
        /\ Cardinality(DOMAIN outputs) = Len(locales)
        /\ "openapi" \in DOMAIN outputs
        /\ outputs["openapi"] =
               [locale |-> locales[1], json |-> "openapi.json", yaml |-> "openapi.yaml"]
        /\ ("openapi_" \o locales[1]) \notin DOMAIN outputs
        /\ \A i \in 2..Len(locales) :
              /\ ("openapi_" \o locales[i]) \in DOMAIN outputs
              /\ outputs["openapi_" \o locales[i]] =
                     [locale |-> locales[i],
                      json |-> "openapi_" \o locales[i] \o ".json",
                      yaml |-> "openapi_" \o locales[i] \o ".yaml"]

\* C6 witness: a run over three locales has ended
C6_Witness ==
    /\ pc = "locale-done"
    /\ Len(locales) = 3
    /\ Cardinality(DOMAIN outputs) = 3

\* C7: whatever the order in which the map of paths is iterated, the JSON
\* document written for a generated file is the same
C7_Deterministic ==
    \A o1, o2 \in outs : o1.file = o2.file => o1.text = o2.text

\* C7 witness: a document with two paths written twice, the map iterated in
\* two orders
C7_Witness ==
    \E o1, o2 \in outs :
        /\ o1.file = o2.file
        /\ o1.iter # o2.iter
        /\ Len(o1.text.paths) = 2

RoutePathsOf(r) == {RouteAt(r, t).Path : t \in RoutePlaces(r)}

\* C8: Generate returns no error and the incoming files followed, for each
\* root with an HTTP service in root order, by the JSON file and then the
\* YAML file of the document of that root
C8_GeneratedFiles ==
    pc = "generated" =>
        /\ genErr = "nil"
        /\ Len(genFiles) = Len(files) + 2 * Len(DocRoots)
        /\ SubSeq(genFiles, 1, Len(files)) = files
        /\ \A k \in 1..Len(DocRoots) :
              LET j == genFiles[Len(files) + 2 * k - 1]
                  y == genFiles[Len(files) + 2 * k]
              IN /\ j.Path = "gen/http/openapi.json"
                 /\ y.Path = "gen/http/openapi.yaml"
                 /\ j.SectionTemplates[1].Source = "{{ toJSON .}}"
                 /\ y.SectionTemplates[1].Source = "{{ toYAML .}}"
                 /\ j.SectionTemplates[1].Data = y.SectionTemplates[1].Data
                 /\ j.SectionTemplates[1].Data.Info.Title = DocRoots[k].API.Title
                 /\ DOMAIN j.SectionTemplates[1].Data.Paths = RoutePathsOf(DocRoots[k])

\* C8 witness: Generate has run on two roots with services and a non-empty
\* incoming file list
C8_Witness ==
    /\ pc = "generated"
    /\ Len(DocRoots) = 2
    /\ DocRoots[1].API.Title # DocRoots[2].API.Title
    /\ files # <<>>

\* C9: no parameter is returned for an attribute tagged with a security role
C9_NoSecurityParameters ==
    pc = "classified" =>
        \A i \in 1..Len(clParams.attrs) :
            clParams.attrs[i].Meta \in SecurityTags =>
                \A j \in 1..Len(clRes) : clRes[j].Name # clParams.attrs[i].Elem

\* the methods of the root with a route at path p
Owners(r, p) == {<<t[1], t[2]>> : t \in {u \in RoutePlaces(r) : RouteAt(r, u).Path = p}}
IdOf(r, o) ==
    r.API.HTTP.Services[o[1]].Name \o "#"
        \o r.API.HTTP.Services[o[1]].HTTPEndpoints[o[2]].Name

OperationIdsOfOwners ==
    \A k \in 1..Len(DocRoots) : \A o \in OpsOf(DocOf(k)) :
        OpAt(DocOf(k), o).OperationID \in {IdOf(DocRoots[k], w) : w \in Owners(DocRoots[k], o[1])}

VerbSlot(v) == IF v = "GET" THEN "Get" ELSE IF v = "POST" THEN "Post"
               ELSE IF v = "PUT" THEN "Put" ELSE "Delete"

\* the methods of the root with a route of verb v at path p
OwnersOfSlot(r, p, v) ==
    {<<t[1], t[2]>> : t \in {u \in RoutePlaces(r) :
                                RouteAt(r, u).Path = p /\ RouteAt(r, u).Method = v}}

\* C11: for every route with verb V and path P of a generated document, the
\* path item under P holds in the slot of V an operation of a method routed
\* with V at P
C11_OneSlotPerVerb ==
    pc = "generated" =>
        \A k \in 1..Len(DocRoots) : \A t \in RoutePlaces(DocRoots[k]) :
            LET rt == RouteAt(DocRoots[k], t)
                op == DocOf(k).Paths[rt.Path][VerbSlot(rt.Method)]
            IN /\ op # NilOperation
               /\ op.OperationID \in
                      {IdOf(DocRoots[k], w) : w \in OwnersOfSlot(DocRoots[k], rt.Path, rt.Method)}

\* C12: when no HTTP service of the design has a route, Generate returns the
\* incoming files alone and no error
C12_NoRoutesNoDocument ==
    (pc = "generated"
     /\ \A n \in 1..Len(roots) :
            roots[n].kind = "RootExpr" => NumRoutesOfRoot(roots[n]) = 0)
        => (genErr = "nil" /\ genFiles = files)

\* some argument is a name that no registered scheme has
UnknownName(args) ==
    \E i \in 1..Len(args) : args[i].type = "string" /\ ~Registered(args[i].name)

ReferencedSchemes(args) ==
    [i \in 1..Len(args) |->
        IF args[i].type = "string"
        THEN CHOOSE sch \in SeqRange(schemes) : sch.SchemeName = args[i].name
        ELSE args[i].val]

\* the requirement sec is recorded for the context f: one record at the end
\* of the list of that kind of context, or an error and no record
RecordedFor(f, sec) ==
    IF f.kind = "method" THEN
        /\ endpointSecurity' =
               Append(endpointSecurity, [Security |-> sec, Method |-> <<f.svc, f.meth>>])
        /\ UNCHANGED <<apiSecurity, serviceSecurity>>
        /\ lastErr' = "none"
    ELSE IF f.kind = "service" THEN
        /\ serviceSecurity' = Append(serviceSecurity, [Security |-> sec, Service |-> f.svc])
        /\ UNCHANGED <<apiSecurity, endpointSecurity>>
        /\ lastErr' = "none"
    ELSE IF f.kind = "api" THEN
        /\ apiSecurity' = Append(apiSecurity, sec)
        /\ UNCHANGED <<serviceSecurity, endpointSecurity>>
        /\ lastErr' = "none"
    ELSE
        /\ lastErr' = "IncompatibleDSL"
        /\ UNCHANGED <<apiSecurity, serviceSecurity, endpointSecurity>>

\* C14: a call of Security whose arguments all resolve records, when it has
\* no builder, one requirement with the referenced schemes in argument order
\* at the end of the list of the current context (method, service or API),
\* the other lists and the earlier records unchanged, and in any other
\* context reports the incompatible-context error and records nothing; with
\* a builder it records that requirement the same way when the builder
\* returns without error
C14_SecurityAppendsOne ==
    [][/\ \A args \in ArgLists :
             (~UnknownName(args) /\ SecurityWith(args, FALSE)) =>
                 RecordedFor(TopOf(stack),
                             [Schemes |-> ReferencedSchemes(args), Scopes |-> <<>>])
       /\ \A args \in ArgLists :
             (~UnknownName(args) /\ SecurityWith(args, TRUE)) =>
                 /\ UNCHANGED <<apiSecurity, serviceSecurity, endpointSecurity>>
                 /\ Len(stack') = Len(stack) + 1
                 /\ TopOf(stack').security.Schemes = ReferencedSchemes(args)
       /\ (SecurityEnd /\ ~Current.failed) =>
             RecordedFor(TopOf(Pop), Current.security)]_vars

\* C14 witness: a requirement with two different scheme references, the
\* second a registered scheme, has just been recorded for a method
C14_Witness ==
    /\ lastErr = "none"
    /\ CurrentKind = "method"
    /\ Len(endpointSecurity) = 1
    /\ Len(endpointSecurity[1].Security.Schemes) = 2
    /\ endpointSecurity[1].Security.Schemes[1] # endpointSecurity[1].Security.Schemes[2]
    /\ endpointSecurity[1].Security.Schemes[2] \in SeqRange(schemes)
    /\ apiSecurity = <<>>

\* the requirements recorded in the three lists
RecordedRequirements ==
    SeqRange(apiSecurity)
        \cup {e.Security : e \in SeqRange(serviceSecurity)}
        \cup {e.Security : e \in SeqRange(endpointSecurity)}

\* the names of the scopes defined on the schemes of a requirement
DefinedScopes(sec) ==
    UNION {{sc.Name : sc \in SeqRange(sch.Scopes)} : sch \in SeqRange(sec.Schemes)}

\* C15: every scope a recorded requirement requires is a scope defined on
\* one of the schemes of that requirement
C15_RequiredScopesDefined ==
    \A sec \in RecordedRequirements :
        \A n \in SeqRange(sec.Scopes) : n \in DefinedScopes(sec)

\* the schemes of the design: those registered and those under definition
DefinedSchemes ==
    SeqRange(schemes) \cup {stack[i].scheme : i \in {j \in 1..Len(stack) : stack[j].kind = "scheme"}}

FlowsOnlyOnOAuth2 == \A sch \in DefinedSchemes : sch.Flows # <<>> => sch.Kind = OAuth2Kind

\* C16: each of the four flow functions, called in the definition of a
\* scheme whose kind is not OAuth2, reports the flow-for-non-OAuth2 error and
\* leaves the flows of that scheme and the registry as they are; and every
\* scheme with a flow has kind OAuth2
C16_FlowsNeedOAuth2 ==
    /\ []FlowsOnlyOnOAuth2
    /\ [][((AuthorizationCodeFlow \/ ImplicitFlow \/ PasswordFlow \/ ClientCredentialsFlow)
           /\ CurrentKind = "scheme" /\ Current.scheme.Kind # OAuth2Kind) =>
              /\ lastErr' = "flow for non-oauth2"
              /\ Len(stack') = Len(stack)
              /\ TopOf(stack').scheme = Current.scheme
              /\ schemes' = schemes]_vars

\* C16 witness: a flow has just been refused in the definition of a JWT
\* scheme, with an OAuth2 scheme registered that has a flow
C16_Witness ==
    /\ lastErr = "flow for non-oauth2"
    /\ CurrentKind = "scheme"
    /\ Current.scheme.Kind = JWTKind
    /\ Current.scheme.Flows = <<>>
    /\ \E sch \in SeqRange(schemes) : sch.Kind = OAuth2Kind /\ sch.Flows # <<>>

\* C17: every scheme of a recorded requirement is a registered scheme or
\* the scheme of kind NoKind that NoSecurity records
C17_RequirementsReferToRegistry ==
    \A sec \in RecordedRequirements :
        \A sch \in SeqRange(sec.Schemes) :
            sch \in SeqRange(schemes) \/ sch.Kind = NoKind

====
